---- MODULE Spec2Model ----
(***************************************************************************)
(* A model of the crypto-sentiment pipeline (src/app.py): the credential   *)
(* resolver, the source adapters and the parallel orchestrator             *)
(* fetch_all_parallel.                                                     *)
(*                                                                         *)
(* Five specifications share the variables:                                 *)
(*   Spec          one run of fetch_all_parallel: submission, the          *)
(*                 concurrent adapter tasks, the bounded waits of the      *)
(*                 collection loop, the executor's shutdown;               *)
(*   SpecAdapters  one call of one source adapter on inputs and provider   *)
(*                 responses drawn from bounded sets;                      *)
(*   SpecHelpers   one call of get_api_key or of safe_request;             *)
(*   SpecAggregate the aggregation of one result map, by the dashboard or  *)
(*                 by the posting job (src/typefully_bot.py);              *)
(*   SpecBot       one run of the posting job, run_daily_analysis.         *)
(* Scores are in hundredths (0.05 is 5), time is in seconds.               *)
(***************************************************************************)
EXTENDS Integers, Sequences, FiniteSets, TLC

VARIABLES
    config,     \* the configuration dict given to fetch_all_parallel
    env,        \* the shared secret store and the process environment
    pc,         \* position of fetch_all_parallel / of the adapter call
    futures,    \* the futures dict: names of the submitted tasks, in insertion order
    task,       \* per task name: "none", "queued", "running", "returned", "raised"
    taskVal,    \* per task name: the value the task returned (NoValue before)
    exceeded,   \* per task name: it finished more than Timeout after its submission
    results,    \* the results dict: a function from the names collected so far
    timedOut,   \* names whose future.result(timeout) wait ran out
    idx,        \* position of the collection loop in futures
    now,        \* the clock
    waitStart,  \* the time at which the current future.result call started
    call,       \* SpecAdapters: the adapter call (name, arguments, provider responses)
    ret,        \* SpecAdapters: what the call returned
    netlog,     \* SpecAdapters: the network requests issued so far
    out,        \* what a helper call returned / what the aggregation reported
    bot         \* SpecBot: the locals of run_daily_analysis and what it did so far

vars == <<config, env, pc, futures, task, taskVal, exceeded, results, timedOut,
          idx, now, waitStart, call, ret, netlog, out, bot>>

orchVars == <<config, env, pc, futures, task, taskVal, exceeded, results,
              timedOut, idx, now, waitStart>>

adapterVars == <<call, ret, netlog, out, bot>>

----------------------------------------------------------------------------
(* Values *)

None == "None"           \* Python's None
Missing == "<missing>"   \* a dict key / environment variable that is not there

\* Python truthiness of an optional string.
Truthy(v) == v \notin {None, Missing, ""}

\* Status strings, kept structured: the leading marker, the text, the number
\* formatted into it and (Reddit) the number of failed subs appended to it.
St(mark, text, n, failed) == [mark |-> mark, text |-> text, n |-> n, failed |-> failed]

Disabled == St("", "Disabled", 0, 0)
NoApiKey == St("WARN", "No API key", 0, 0)
RateLimit == St("WARN", "Rate limit reached", 0, 0)
ApiError(code) == St("FAIL", "API error", code, 0)
ErrorExc == St("FAIL", "Error", 0, 0)
TimeoutError == St("FAIL", "Timeout/Error", 0, 0)
Ok(n, what) == St("OK", what, n, 0)

\* "✅" in status: the test the dashboard uses for its success badge.
IsSuccess(status) == status.mark = "OK"

----------------------------------------------------------------------------
(* API key management *)

KeyNames == {"RAPIDAPI_KEY", "NEWSAPI_KEY"}

\* Mutant: the environment variable looked up before the shared secrets.
get_api_key_envfirst(key_name, user_key, e) ==
    IF Truthy(user_key) THEN user_key
    ELSE IF Truthy(e.environ[key_name]) THEN e.environ[key_name]
    ELSE IF e.secretsOK /\ e.secrets[key_name] # Missing THEN e.secrets[key_name]
    ELSE None

\* get_api_key(key_name, user_key) in the environment e:
\* e.secretsOK: st.secrets can be read; e.secrets[k]: its value or Missing;
\* e.environ[k]: the environment variable or Missing.
get_api_key(key_name, user_key, e) ==
    IF Truthy(user_key) THEN user_key
    ELSE IF e.secretsOK /\ e.secrets[key_name] # Missing THEN e.secrets[key_name]
    ELSE IF Truthy(e.environ[key_name]) THEN e.environ[key_name]
    ELSE None

----------------------------------------------------------------------------
(* Provider responses *)

MaxEntries == 2   \* entries in one provider response
MaxNet == 2       \* exchanges the provider answers before it becomes unreachable
MaxLimit == 2     \* largest requested item count

Min(a, b) == IF a <= b THEN a ELSE b

SeqsUpTo(S, n) == UNION {[1..k -> S] : k \in 0..n}

Take(s, n) == SubSeq(s, 1, Min(n, Len(s)))

\* One entry of a provider payload (a tweet, a post, an article, a headline):
\* compound: the score the analyzer gives its text; len: the length of its
\* text without markup (of its title, for a source that has titles); match:
\* the query occurs in the fields the adapter searches; ok: FALSE when
\* processing it raises (a malformed entry, a field missing); tags: the text
\* holds markup tags as it comes from the provider.
RawEntry(compound, len, match, ok, tags) ==
    [compound |-> compound, len |-> len, match |-> match, ok |-> ok, tags |-> tags]

EPos == RawEntry(60, 40, TRUE, TRUE, FALSE)
ELong == RawEntry(5, 100, TRUE, TRUE, TRUE)
EOff == RawEntry(-30, 5, FALSE, TRUE, FALSE)
EBad == RawEntry(0, 40, TRUE, FALSE, FALSE)
EEdge == RawEntry(-5, 9, TRUE, TRUE, FALSE)

RawEntries == {EPos, ELong, EOff, EBad, EEdge}

\* One answer to one HTTP request: a transport exception or a response with a
\* status code; json: the body parses; entries: the payload's entries.
Exc == [kind |-> "exc", code |-> 0, json |-> FALSE, entries |-> <<>>]
Http(code) == [kind |-> "http", code |-> code, json |-> FALSE, entries |-> <<>>]
BadPage == [kind |-> "http", code |-> 200, json |-> FALSE, entries |-> <<>>]
Page(entries) == [kind |-> "http", code |-> 200, json |-> TRUE, entries |-> entries]

Is200(r) == r.kind = "http" /\ r.code = 200

Responses ==
    {Exc, Http(429), Http(500), BadPage} \cup {Page(b) : b \in SeqsUpTo(RawEntries, MaxEntries)}

\* An exchange is what the network answers to one adapter-level request: the
\* answer to the direct attempt, then the answers through the proxies tried.
\* A provider stream is a sequence of exchanges, consumed in order; past its
\* end every request fails with a transport exception.
AttemptAt(x, j) == IF j <= Len(x) THEN x[j] ELSE Exc

NetAt(net, i) == IF i <= Len(net) THEN net[i] ELSE <<Exc>>

LoopExchanges ==
    { <<Exc>>, <<Http(500), Page(<<EPos>>)>>, <<BadPage>>, <<Page(<<>>)>>,
      <<Page(<<EPos, EOff>>)>>, <<Page(<<EBad>>)>>, <<Page(<<ELong, EBad>>)>> }

\* Events of the request log.
Ev(op, target) == [op |-> op, target |-> target]

Gets(target, n) == [i \in 1..n |-> Ev("GET", target)]

----------------------------------------------------------------------------
(* Proxy support *)

NoResponse == [kind |-> "none", code |-> 0, json |-> FALSE, entries |-> <<>>]

RECURSIVE ProxyLoop(_, _, _)
\* The loop over random.sample(proxies_list, min(3, len)): attempt j+1 of the
\* exchange x goes through the j-th sampled proxy; k proxies are sampled.
ProxyLoop(x, j, k) ==
    IF j > k THEN [r |-> NoResponse, n |-> k + 1]
    ELSE IF Is200(AttemptAt(x, j + 1)) THEN [r |-> AttemptAt(x, j + 1), n |-> j + 1]
    ELSE ProxyLoop(x, j + 1, k)

ProxySample == 3

\* Mutant: the direct response returned whatever its status code.
safe_request_anystatus(x, proxies_list) ==
    IF AttemptAt(x, 1).kind = "http" THEN [r |-> AttemptAt(x, 1), n |-> 1]
    ELSE IF Len(proxies_list) > 0
         THEN ProxyLoop(x, 1, Min(ProxySample, Len(proxies_list)))
         ELSE [r |-> NoResponse, n |-> 1]

\* safe_request: r is the response returned (NoResponse for None), n the
\* number of requests issued. proxies_list is the sequence of proxies, empty
\* for None and for an empty list (both falsy).
safe_request(x, proxies_list) ==
    IF Is200(AttemptAt(x, 1)) THEN [r |-> AttemptAt(x, 1), n |-> 1]
    ELSE IF Len(proxies_list) > 0
         THEN ProxyLoop(x, 1, Min(ProxySample, Len(proxies_list)))
         ELSE [r |-> NoResponse, n |-> 1]

----------------------------------------------------------------------------
(* Helpers *)

\* Mutant: the thresholds taken inclusively.
vader_label_inclusive(score) ==
    IF score >= 5 THEN "positive"
    ELSE IF score <= -5 THEN "negative"
    ELSE "neutral"

vader_label(score) ==
    IF score > 5 THEN "positive"
    ELSE IF score < -5 THEN "negative"
    ELSE "neutral"

TitleCut == 80

\* The adapters that run re.sub(r'<[^>]+>', '', ...) over the text they score.
Strips(source) == source \in {"ct_nitter", "coinmarketcap"}

\* Mutant: the title is the whole text, never cut.
ItemUncut(source, e, cut) ==
    [source |-> source,
     titleLen |-> e.len,
     textLen |-> e.len,
     tags |-> e.tags /\ ~Strips(source),
     match |-> e.match,
     compound |-> e.compound,
     label |-> vader_label(e.compound)]

\* One normalised item; cut: the title is text[:80], otherwise it is the
\* provider's title as it came. tags: the scored text still holds markup.
\* match: the title holds the query.
Item(source, e, cut) ==
    [source |-> source,
     titleLen |-> IF cut THEN Min(e.len, TitleCut) ELSE e.len,
     textLen |-> e.len,
     tags |-> e.tags /\ ~Strips(source),
     match |-> e.match,
     compound |-> e.compound,
     label |-> vader_label(e.compound)]

Items(source, s, cut) == [i \in 1..Len(s) |-> Item(source, s[i], cut)]

AllOk(s) == \A i \in 1..Len(s) : s[i].ok

Matching(s) == SelectSeq(s, LAMBDA e : e.match)

\* What an adapter call gives back: the (items, status) tuple and the requests
\* it issued.
Result(items, status, log) == [items |-> items, status |-> status, log |-> log]

----------------------------------------------------------------------------
(* Crypto Twitter sources *)

nitter_instances ==
    << "nitter.poast.org", "nitter.privacydev.net", "nitter.woodland.cafe",
       "nitter.lucabased.xyz", "nitter.mint.lgbt", "xcancel.com" >>

RECURSIVE TweetLoop(_, _, _, _)
\* The loop over tweets[:limit] of one instance: items so far, position t.
\* raised: processing a tweet raised, with the items appended before it kept.
TweetLoop(tweets, t, items, limit) ==
    IF t > Len(tweets) THEN [items |-> items, raised |-> FALSE]
    ELSE IF ~tweets[t].ok THEN [items |-> items, raised |-> TRUE]
    ELSE LET more == Append(items, Item("ct_nitter", tweets[t], TRUE))
         IN IF Len(more) >= limit THEN [items |-> more, raised |-> FALSE]
            ELSE TweetLoop(tweets, t + 1, more, limit)

RECURSIVE NitterLoop(_, _, _, _, _, _)
\* The loop over nitter_instances from instance i on.
NitterLoop(i, items, log, limit, proxies_list, net) ==
    IF i > Len(nitter_instances)
    THEN Result(<<>>, St("FAIL", "All instances down", 0, 0), log)
    ELSE LET sr == safe_request(NetAt(net, i), proxies_list)
             log2 == log \o Gets(nitter_instances[i], sr.n)
         IN IF ~Is200(sr.r) THEN NitterLoop(i + 1, items, log2, limit, proxies_list, net)
            ELSE LET tl == TweetLoop(Take(sr.r.entries, limit), 1, items, limit)
                 IN IF tl.raised
                    THEN NitterLoop(i + 1, tl.items, log2, limit, proxies_list, net)
                    ELSE IF Len(tl.items) > 0
                    THEN Result(tl.items, Ok(Len(tl.items), "tweets"), log2)
                    ELSE NitterLoop(i + 1, tl.items, log2, limit, proxies_list, net)

fetch_ct_nitter(query, limit, proxies_list, net) ==
    IF limit = 0 THEN Result(<<>>, Disabled, <<>>)
    ELSE NitterLoop(1, <<>>, <<>>, limit, proxies_list, net)

\* Mutant: no branch for 429, which falls into the generic API error.
RapidApiRequestNo429(limit, r) ==
    LET log == Gets("twitter154.p.rapidapi.com", 1)
    IN IF r.kind = "exc" THEN Result(<<>>, ErrorExc, log)
       ELSE IF r.code # 200 THEN Result(<<>>, ApiError(r.code), log)
       ELSE IF ~r.json \/ ~AllOk(Take(r.entries, limit)) THEN Result(<<>>, ErrorExc, log)
       ELSE LET items == Items("ct_rapidapi", Take(r.entries, limit), TRUE)
            IN Result(items, Ok(Len(items), "tweets"), log)

\* The part of fetch_ct_rapidapi after the credential check: one request.
RapidApiRequest(limit, r) ==
    LET log == Gets("twitter154.p.rapidapi.com", 1)
    IN IF r.kind = "exc" THEN Result(<<>>, ErrorExc, log)
       ELSE IF r.code = 429 THEN Result(<<>>, RateLimit, log)
       ELSE IF r.code # 200 THEN Result(<<>>, ApiError(r.code), log)
       ELSE IF ~r.json \/ ~AllOk(Take(r.entries, limit)) THEN Result(<<>>, ErrorExc, log)
       ELSE LET items == Items("ct_rapidapi", Take(r.entries, limit), TRUE)
            IN Result(items, Ok(Len(items), "tweets"), log)

fetch_ct_rapidapi(query, limit, api_key, e, net) ==
    IF limit = 0 THEN Result(<<>>, Disabled, <<>>)
    ELSE IF ~Truthy(get_api_key("RAPIDAPI_KEY", api_key, e))
    THEN Result(<<>>, NoApiKey, <<>>)
    ELSE RapidApiRequest(limit, AttemptAt(NetAt(net, 1), 1))

----------------------------------------------------------------------------
(* Reddit *)

RECURSIVE PostLoop(_, _, _, _)
\* The loop over the posts of one sub: non-matching posts are skipped, the
\* loop breaks once len(items) >= limit.
PostLoop(posts, t, items, limit) ==
    IF t > Len(posts) THEN [items |-> items, raised |-> FALSE]
    ELSE IF ~posts[t].ok THEN [items |-> items, raised |-> TRUE]
    ELSE IF ~posts[t].match THEN PostLoop(posts, t + 1, items, limit)
    ELSE LET more == Append(items, Item("reddit", posts[t], FALSE))
         IN IF Len(more) >= limit THEN [items |-> more, raised |-> FALSE]
            ELSE PostLoop(posts, t + 1, more, limit)

\* Mutant: failed subs replace the status instead of being appended to it.
RedditStatusErrorsFirst(items, errors) ==
    IF errors > 0 THEN St("WARN", "subs failed", errors, errors)
    ELSE IF Len(items) = 0 THEN St("WARN", "No posts found", 0, 0)
    ELSE St("OK", "posts", Len(items), 0)

\* The final status of fetch_reddit_json.
RedditStatus(items, errors) ==
    IF Len(items) = 0 THEN St("WARN", "No posts found", 0, 0)
    ELSE St("OK", "posts", Len(items), errors)

RECURSIVE RedditLoop(_, _, _, _, _, _, _, _)
\* The loop over subs from position i on; k is the next exchange of the
\* stream, errors the number of subs that failed. The log also records
\* errors.append(sub) and time.sleep(0.5).
RedditLoop(subs, i, k, items, errors, log, limit, cx) ==
    IF i > Len(subs) THEN Result(items, RedditStatus(items, errors), log)
    ELSE
    LET sr == safe_request(NetAt(cx.net, k), cx.proxies)
        log1 == log \o Gets(subs[i], sr.n)
    IN IF ~Is200(sr.r) \/ ~sr.r.json
       THEN RedditLoop(subs, i + 1, k + 1, items, errors + 1,
                       Append(log1, Ev("error", subs[i])), limit, cx)
       ELSE
       LET hot == Len(sr.r.entries) = 0
           sr2 == safe_request(NetAt(cx.net, k + 1), cx.proxies)
           posts == IF hot /\ Is200(sr2.r) /\ sr2.r.json THEN sr2.r.entries
                    ELSE sr.r.entries
           log2 == IF hot THEN log1 \o Gets(subs[i], sr2.n) ELSE log1
           k2 == IF hot THEN k + 2 ELSE k + 1
           pl == PostLoop(posts, 1, items, limit)
       IN IF pl.raised
          THEN RedditLoop(subs, i + 1, k2, pl.items, errors + 1,
                          Append(log2, Ev("error", subs[i])), limit, cx)
          ELSE RedditLoop(subs, i + 1, k2, pl.items, errors,
                          Append(log2, Ev("sleep", subs[i])), limit, cx)

fetch_reddit_json(subs, query, limit, proxies_list, net) ==
    IF limit = 0 THEN Result(<<>>, Disabled, <<>>)
    ELSE RedditLoop(subs, 1, 1, <<>>, 0, <<>>, limit,
                    [net |-> net, proxies |-> proxies_list])

----------------------------------------------------------------------------
(* News *)

\* The part of fetch_news after the credential check: one request. The loop
\* takes every article of the response; a['title'] raises on a malformed one.
NewsRequest(r) ==
    LET log == Gets("newsapi.org", 1)
    IN IF r.kind = "exc" THEN Result(<<>>, ErrorExc, log)
       ELSE IF r.code = 429 THEN Result(<<>>, RateLimit, log)
       ELSE IF r.code # 200 THEN Result(<<>>, ApiError(r.code), log)
       ELSE IF ~r.json \/ ~AllOk(r.entries) THEN Result(<<>>, ErrorExc, log)
       ELSE LET items == Items("news", r.entries, FALSE)
            IN Result(items, Ok(Len(items), "articles"), log)

\* Mutant: the request is made whether or not a key was resolved.
fetch_news_nokeycheck(query, days, limit, api_key, e, net) ==
    IF limit = 0 THEN Result(<<>>, Disabled, <<>>)
    ELSE NewsRequest(AttemptAt(NetAt(net, 1), 1))

fetch_news(query, days, limit, api_key, e, net) ==
    IF limit = 0 THEN Result(<<>>, Disabled, <<>>)
    ELSE IF ~Truthy(get_api_key("NEWSAPI_KEY", api_key, e))
    THEN Result(<<>>, NoApiKey, <<>>)
    ELSE NewsRequest(AttemptAt(NetAt(net, 1), 1))

----------------------------------------------------------------------------
(* Further sources *)

TrendingScore == 30
TrendingMax == 7

fetch_coingecko_trending(net) ==
    LET r == AttemptAt(NetAt(net, 1), 1)
        log == Gets("api.coingecko.com/trending", 1)
        coins == Take(r.entries, TrendingMax)
    IN IF r.kind = "exc" THEN Result(<<>>, ErrorExc, log)
       ELSE IF r.code # 200 THEN Result(<<>>, St("FAIL", "API error", 0, 0), log)
       ELSE IF ~r.json \/ ~AllOk(coins) THEN Result(<<>>, ErrorExc, log)
       ELSE LET items == [i \in 1..Len(coins) |->
                            Item("coingecko_trending",
                                 [coins[i] EXCEPT !.compound = TrendingScore], FALSE)]
            IN Result(items, Ok(Len(items), "trending"), log)

\* Mutant: the limit == 0 guard left out.
fetch_cryptocompare_news_unguarded(query, limit, net) ==
    LET r == AttemptAt(NetAt(net, 1), 1)
        log == Gets("min-api.cryptocompare.com", 1)
        filtered == IF Len(Matching(r.entries)) = 0 THEN Take(r.entries, limit)
                    ELSE Matching(r.entries)
    IN IF r.kind = "exc" THEN Result(<<>>, ErrorExc, log)
       ELSE IF r.code # 200 THEN Result(<<>>, ApiError(r.code), log)
       ELSE IF ~r.json \/ ~AllOk(r.entries) THEN Result(<<>>, ErrorExc, log)
       ELSE LET items == Items("cryptocompare", Take(filtered, limit), FALSE)
            IN Result(items, Ok(Len(items), "articles"), log)

fetch_cryptocompare_news(query, limit, net) ==
    IF limit = 0 THEN Result(<<>>, Disabled, <<>>)
    ELSE
    LET r == AttemptAt(NetAt(net, 1), 1)
        log == Gets("min-api.cryptocompare.com", 1)
        filtered == IF Len(Matching(r.entries)) = 0 THEN Take(r.entries, limit)
                    ELSE Matching(r.entries)
    IN IF r.kind = "exc" THEN Result(<<>>, ErrorExc, log)
       ELSE IF r.code # 200 THEN Result(<<>>, ApiError(r.code), log)
       ELSE IF ~r.json \/ ~AllOk(r.entries) THEN Result(<<>>, ErrorExc, log)
       ELSE LET items == Items("cryptocompare", Take(filtered, limit), FALSE)
            IN Result(items, Ok(Len(items), "articles"), log)

\* query.upper() on the queries of the model.
Upper(q) ==
    CASE q = "btc" -> "BTC"
      [] q = "pepe" -> "PEPE"
      [] OTHER -> q

known_currencies == {"BTC", "ETH", "AVAX", "SOL", "ADA", "DOT", "MATIC", "LINK"}

\* The part of fetch_cryptopanic after a 200 response r: withParam is
\* "currencies" in params at that point.
CryptoPanicItems(limit, r, withParam, log) ==
    LET found == IF withParam THEN r.entries ELSE Matching(r.entries)
        raises == IF withParam THEN ~AllOk(Take(found, limit)) ELSE ~AllOk(r.entries)
    IN IF ~r.json \/ raises THEN Result(<<>>, ErrorExc, log)
       ELSE LET items == Items("cryptopanic", Take(found, limit), FALSE)
            IN IF Len(items) = 0 THEN Result(<<>>, St("WARN", "No results", 0, 0), log)
               ELSE Result(items, Ok(Len(items), "articles"), log)

\* Mutant: the answer to the retry is taken as if the retry had carried the
\* currencies parameter.
fetch_cryptopanic_retry_as_first(query, limit, net) ==
    IF limit = 0 THEN Result(<<>>, Disabled, <<>>)
    ELSE
    LET r1 == AttemptAt(NetAt(net, 1), 1)
        r2 == AttemptAt(NetAt(net, 2), 1)
        log1 == Gets("cryptopanic.com", 1)
        log2 == Gets("cryptopanic.com", 2)
    IN IF r1.kind = "exc" THEN Result(<<>>, ErrorExc, log1)
       ELSE IF r1.code = 200
       THEN CryptoPanicItems(limit, r1, Upper(query) \in known_currencies, log1)
       ELSE IF r2.kind = "exc" THEN Result(<<>>, ErrorExc, log2)
       ELSE IF r2.code # 200 THEN Result(<<>>, St("FAIL", "API unavailable", 0, 0), log2)
       ELSE CryptoPanicItems(limit, r2, Upper(query) \in known_currencies, log2)

\* The first request carries currencies=QUERY only for a known ticker; a
\* non-200 answer rebuilds the parameters without it and asks again, and the
\* title filter runs whenever the parameters in force lack currencies.
fetch_cryptopanic(query, limit, net) ==
    IF limit = 0 THEN Result(<<>>, Disabled, <<>>)
    ELSE
    LET r1 == AttemptAt(NetAt(net, 1), 1)
        r2 == AttemptAt(NetAt(net, 2), 1)
        log1 == Gets("cryptopanic.com", 1)
        log2 == Gets("cryptopanic.com", 2)
    IN IF r1.kind = "exc" THEN Result(<<>>, ErrorExc, log1)
       ELSE IF r1.code = 200
       THEN CryptoPanicItems(limit, r1, Upper(query) \in known_currencies, log1)
       ELSE IF r2.kind = "exc" THEN Result(<<>>, ErrorExc, log2)
       ELSE IF r2.code # 200 THEN Result(<<>>, St("FAIL", "API unavailable", 0, 0), log2)
       ELSE CryptoPanicItems(limit, r2, FALSE, log2)

MinHeadline == 10

fetch_coinmarketcap_news(query, limit, net) ==
    IF limit = 0 THEN Result(<<>>, Disabled, <<>>)
    ELSE
    LET r == AttemptAt(NetAt(net, 1), 1)
        log == Gets("coinmarketcap.com", 1)
        kept == SelectSeq(Take(r.entries, limit),
                          LAMBDA h : h.len >= MinHeadline /\ h.match)
    IN IF r.kind = "exc" THEN Result(<<>>, ErrorExc, log)
       ELSE IF r.code # 200 THEN Result(<<>>, St("FAIL", "Scraping blocked", 0, 0), log)
       ELSE IF ~AllOk(kept) THEN Result(<<>>, ErrorExc, log)
       ELSE IF Len(kept) = 0 THEN Result(<<>>, St("WARN", "No matching news", 0, 0), log)
       ELSE Result(Items("coinmarketcap", kept, FALSE), Ok(Len(kept), "headlines"), log)

----------------------------------------------------------------------------
(* Market data *)

\* The values held by the results dict. An adapter's (items, status) tuple, the
\* (price data, status) tuple of get_coingecko, and the dict or None of
\* fetch_fear_greed; data names the non-list payload.
NoStatus == St("", "", 0, 0)

Tuple(items, status) == [shape |-> "tuple", items |-> items, data |-> None, status |-> status]

PriceTuple(data, status) == [shape |-> "tuple", items |-> <<>>, data |-> data, status |-> status]

FearGreedDict == [shape |-> "dict", items |-> <<>>, data |-> "fear_greed", status |-> NoStatus]

NoneValue == [shape |-> "None", items |-> <<>>, data |-> None, status |-> NoStatus]

fetch_fear_greed(net) ==
    LET r == AttemptAt(NetAt(net, 1), 1)
    IN IF Is200(r) /\ r.json /\ Len(r.entries) > 0 /\ r.entries[1].ok
       THEN FearGreedDict
       ELSE NoneValue

symbol_map ==
    {"BTC", "ETH", "AVAX", "APT", "SOL", "ADA", "DOT", "MATIC", "LINK", "UNI",
     "ATOM", "XRP", "DOGE", "SHIB", "LTC", "NEAR", "ARB", "OP"}

\* get_coingecko: a token outside symbol_map costs one search request first
\* (its failure is swallowed and the lower-cased symbol is used).
get_coingecko(token, net) ==
    LET k == IF Upper(token) \in symbol_map THEN 1 ELSE 2
        r == AttemptAt(NetAt(net, k), 1)
    IN IF r.kind = "exc" THEN PriceTuple(None, ErrorExc)
       ELSE IF r.code # 200 THEN PriceTuple(None, ApiError(r.code))
       ELSE IF ~r.json \/ Len(r.entries) = 0 \/ ~AllOk(r.entries)
       THEN PriceTuple(None, ErrorExc)
       ELSE PriceTuple("price", St("OK", "Success", 0, 0))

----------------------------------------------------------------------------
(* Parallel fetching: fetch_all_parallel *)

Timeout == 30      \* future.result(timeout=30)
MaxWorkers == 10   \* ThreadPoolExecutor(max_workers=10)
Step == 15         \* granularity of the clock
MaxTime == 45      \* the clock stops here

\* The task names in the order fetch_all_parallel submits them (the insertion
\* order of the futures dict, which is the order of collection).
Order ==
    << "ct_nitter", "ct_rapidapi", "reddit", "news", "cryptopanic",
       "cryptocompare", "cmc", "trending", "coingecko", "fear_greed" >>

Names == {Order[i] : i \in 1..Len(Order)}

\* Mutant: the news task gated on its key the way the RapidAPI task is.
SubmitsNewsKeyGated(name, cfg, e) ==
    CASE name = "ct_nitter" ->
           cfg.ct_limit > 0 /\ cfg.ct_method \in {"Nitter (Free)", "All"}
      [] name = "ct_rapidapi" ->
           /\ cfg.ct_limit > 0
           /\ cfg.ct_method \in {"RapidAPI", "All"}
           /\ \/ Truthy(cfg.rapidapi_key)
              \/ Truthy(get_api_key("RAPIDAPI_KEY", None, e))
      [] name = "reddit" -> cfg.reddit_limit > 0
      [] name = "news" ->
           /\ cfg.news_limit > 0
           /\ \/ Truthy(cfg.newsapi_key)
              \/ Truthy(get_api_key("NEWSAPI_KEY", None, e))
      [] name = "cryptopanic" -> cfg.cryptopanic_limit > 0
      [] name = "cryptocompare" -> cfg.cryptocompare_limit > 0
      [] name = "cmc" -> cfg.cmc_limit > 0
      [] name = "trending" -> cfg.trending_enabled
      [] OTHER -> TRUE

\* The condition under which fetch_all_parallel submits the task.
Submits(name, cfg, e) ==
    CASE name = "ct_nitter" ->
           cfg.ct_limit > 0 /\ cfg.ct_method \in {"Nitter (Free)", "All"}
      [] name = "ct_rapidapi" ->
           /\ cfg.ct_limit > 0
           /\ cfg.ct_method \in {"RapidAPI", "All"}
           /\ \/ Truthy(cfg.rapidapi_key)
              \/ Truthy(get_api_key("RAPIDAPI_KEY", None, e))
      [] name = "reddit" -> cfg.reddit_limit > 0
      [] name = "news" -> cfg.news_limit > 0
      [] name = "cryptopanic" -> cfg.cryptopanic_limit > 0
      [] name = "cryptocompare" -> cfg.cryptocompare_limit > 0
      [] name = "cmc" -> cfg.cmc_limit > 0
      [] name = "trending" -> cfg.trending_enabled
      [] OTHER -> TRUE

RECURSIVE SubmitPlan(_, _, _, _)
\* The submission phase from position i of Order on: the keys of the futures
\* dict, in insertion order.
SubmitPlan(i, acc, cfg, e) ==
    IF i > Len(Order) THEN acc
    ELSE IF Submits(Order[i], cfg, e) THEN SubmitPlan(i + 1, Append(acc, Order[i]), cfg, e)
    ELSE SubmitPlan(i + 1, acc, cfg, e)

\* What the task of that name returns when the provider answers with net.
RunTask(name, cfg, e, net) ==
    LET T(r) == Tuple(r.items, r.status)
    IN CASE name = "ct_nitter" -> T(fetch_ct_nitter(cfg.query, cfg.ct_limit, cfg.proxies, net))
         [] name = "ct_rapidapi" ->
              T(fetch_ct_rapidapi(cfg.query, cfg.ct_limit, cfg.rapidapi_key, e, net))
         [] name = "reddit" ->
              T(fetch_reddit_json(cfg.subs, cfg.query, cfg.reddit_limit, cfg.proxies, net))
         [] name = "news" ->
              T(fetch_news(cfg.query, cfg.lookback, cfg.news_limit, cfg.newsapi_key, e, net))
         [] name = "cryptopanic" -> T(fetch_cryptopanic(cfg.query, cfg.cryptopanic_limit, net))
         [] name = "cryptocompare" ->
              T(fetch_cryptocompare_news(cfg.query, cfg.cryptocompare_limit, net))
         [] name = "cmc" -> T(fetch_coinmarketcap_news(cfg.query, cfg.cmc_limit, net))
         [] name = "trending" -> T(fetch_coingecko_trending(net))
         [] name = "coingecko" -> get_coingecko(cfg.query, net)
         [] OTHER -> fetch_fear_greed(net)

\* The entry recorded for a task whose wait ran out or that raised.
TimeoutEntry == Tuple(<<>>, TimeoutError)

\* What future.result(timeout=30) does for a future in that state: it gives
\* the task's value, re-raises the task's exception, or raises TimeoutError
\* when the wait runs out on a task that is not over.
Outcome(state) ==
    CASE state = "returned" -> "value"
      [] state = "raised" -> "Exception"
      [] OTHER -> "TimeoutError"

\* Mutant: except TimeoutError, which lets a task's own exception through.
CatchesTimeoutOnly(exception) == exception = "TimeoutError"

\* except Exception: the handler of the collection loop catches both.
Catches(exception) == exception \in {"Exception", "TimeoutError"}

\* Mutant: the handler stores whatever the future holds instead of the
\* timeout/error entry.
CollectedRaw(name, state, value) == value

\* results[name] as one iteration of the collection loop sets it.
Collected(name, state, value) ==
    IF Outcome(state) = "value" THEN value ELSE TimeoutEntry

Position(name) == CHOOSE i \in 1..Len(futures) : futures[i] = name

Pending(n) == task[n] \in {"queued", "running"}

Finished(n) == task[n] \in {"returned", "raised"}

\* A worker that ends a task takes the next queued one.
StartNext(t) ==
    IF \E n \in Names : t[n] = "queued"
    THEN LET n == CHOOSE m \in Names : /\ t[m] = "queued"
                                       /\ \A o \in Names : t[o] = "queued" =>
                                              Position(m) <= Position(o)
         IN [t EXCEPT ![n] = "running"]
    ELSE t

----------------------------------------------------------------------------
(* The runs of fetch_all_parallel that are explored *)

Gates == {"ct", "reddit", "news", "cryptopanic", "cryptocompare", "cmc", "trending"}

\* The sets of sources switched on (a positive limit, the trending flag).
EnabledSets ==
    {{}, {"ct"}, {"news"}, {"reddit"}, {"cryptopanic"}, {"cryptocompare"},
     {"cmc"}, {"trending"}}

Methods == {"Nitter (Free)", "RapidAPI", "All"}

\* The credential fields are always there: None, or what the user typed.
KeyArgs == {None, "user-key"}

Config(on, method, rapid, news) ==
    [query |-> "BTC", lookback |-> 7, ct_method |-> method,
     ct_limit |-> IF "ct" \in on THEN MaxLimit ELSE 0,
     reddit_limit |-> IF "reddit" \in on THEN MaxLimit ELSE 0,
     news_limit |-> IF "news" \in on THEN MaxLimit ELSE 0,
     cryptopanic_limit |-> IF "cryptopanic" \in on THEN MaxLimit ELSE 0,
     cryptocompare_limit |-> IF "cryptocompare" \in on THEN MaxLimit ELSE 0,
     cmc_limit |-> IF "cmc" \in on THEN MaxLimit ELSE 0,
     trending_enabled |-> "trending" \in on,
     subs |-> <<"CryptoCurrency">>,
     newsapi_key |-> news, rapidapi_key |-> rapid, proxies |-> <<>>]

\* The method selector and the credentials vary where the run reads them.
Configs ==
    {Config(on, m, rk, nk) : on \in EnabledSets, m \in Methods, rk \in KeyArgs, nk \in KeyArgs}

RelevantConfig(cfg) ==
    /\ cfg.ct_limit = 0 => cfg.ct_method = "Nitter (Free)" /\ cfg.rapidapi_key = None
    /\ cfg.news_limit = 0 => cfg.newsapi_key = None

Environment(ok, shared, envvar) ==
    [secretsOK |-> ok,
     secrets |-> [k \in KeyNames |-> shared],
     environ |-> [k \in KeyNames |-> envvar]]

OrchEnvs ==
    { Environment(TRUE, Missing, Missing),
      Environment(FALSE, "shared-key", "env-key"),
      Environment(TRUE, "shared-key", Missing) }

\* What the providers answer to a task: nothing at all, or one page.
OrchNets == { <<>>, << <<Page(<<EPos>>)>> >> }

NoCall ==
    [name |-> "", query |-> "", limit |-> 0, api_key |-> None, subs |-> <<>>,
     proxies |-> <<>>, net |-> <<>>]

NoResult == Result(<<>>, NoStatus, <<>>)

NoOut == [kind |-> "none"]

\* run_daily_analysis not started: no social-set id, no result, nothing done.
NoBot ==
    [api_key |-> "", social_set_id |-> None, top5_results |-> <<>>,
     avax_result |-> None, events |-> <<>>]

Init ==
    /\ config \in {c \in Configs : RelevantConfig(c)}
    /\ env \in OrchEnvs
    /\ pc = "start"
    /\ futures = <<>>
    /\ task = [n \in Names |-> "none"]
    /\ taskVal = [n \in Names |-> NoneValue]
    /\ exceeded = [n \in Names |-> FALSE]
    /\ results = <<>>
    /\ timedOut = {}
    /\ idx = 1
    /\ now = 0
    /\ waitStart = 0
    /\ call = NoCall
    /\ ret = NoResult
    /\ netlog = <<>>
    /\ out = NoOut
    /\ bot = NoBot

\* The submissions of fetch_all_parallel, all at time 0: executor.submit does
\* not block. The first MaxWorkers tasks start at once, the others queue.
Submit ==
    /\ pc = "start"
    /\ LET plan == SubmitPlan(1, <<>>, config, env)
       IN /\ futures' = plan
          /\ task' = [n \in Names |->
                        IF \E i \in 1..Len(plan) : plan[i] = n
                        THEN IF (CHOOSE i \in 1..Len(plan) : plan[i] = n) <= MaxWorkers
                             THEN "running" ELSE "queued"
                        ELSE "none"]
          /\ pc' = "collect"
    /\ waitStart' = now
    /\ UNCHANGED <<config, env, taskVal, exceeded, results, timedOut, idx, now>>
    /\ UNCHANGED adapterVars

\* Mutant: the task stores its value in the results dict itself.
TaskReturnWritesMapping(n) ==
    /\ task[n] = "running"
    /\ \E net \in OrchNets :
          /\ taskVal' = [taskVal EXCEPT ![n] = RunTask(n, config, env, net)]
          /\ results' = (n :> RunTask(n, config, env, net)) @@ results
    /\ task' = StartNext([task EXCEPT ![n] = "returned"])
    /\ exceeded' = [exceeded EXCEPT ![n] = now > Timeout]
    /\ UNCHANGED <<config, env, pc, futures, timedOut, idx, now, waitStart>>
    /\ UNCHANGED adapterVars

\* A task returns the value of its adapter.
TaskReturn(n) ==
    /\ task[n] = "running"
    /\ \E net \in OrchNets : taskVal' = [taskVal EXCEPT ![n] = RunTask(n, config, env, net)]
    /\ task' = StartNext([task EXCEPT ![n] = "returned"])
    /\ exceeded' = [exceeded EXCEPT ![n] = now > Timeout]
    /\ UNCHANGED <<config, env, pc, futures, results, timedOut, idx, now, waitStart>>
    /\ UNCHANGED adapterVars

\* A task ends with an exception.
TaskRaise(n) ==
    /\ task[n] = "running"
    /\ task' = StartNext([task EXCEPT ![n] = "raised"])
    /\ exceeded' = [exceeded EXCEPT ![n] = now > Timeout]
    /\ UNCHANGED <<config, env, pc, futures, taskVal, results, timedOut, idx, now, waitStart>>
    /\ UNCHANGED adapterVars

\* One iteration of the collection loop, on the future of futures[idx]: the
\* entry is recorded and the loop goes on, unless the handler lets the
\* exception through.
Iterate ==
    LET n == futures[idx]
    IN IF Outcome(task[n]) = "value" \/ Catches(Outcome(task[n]))
       THEN /\ results' = results @@ (n :> Collected(n, task[n], taskVal[n]))
            /\ idx' = idx + 1
            /\ pc' = IF idx = Len(futures) THEN "shutdown" ELSE "collect"
       ELSE /\ pc' = "raised"
            /\ UNCHANGED <<results, idx>>

\* The future is done: future.result returns or raises at once.
CollectDone ==
    /\ pc = "collect"
    /\ Finished(futures[idx])
    /\ Iterate
    /\ waitStart' = now
    /\ UNCHANGED <<config, env, futures, task, taskVal, exceeded, timedOut, now>>
    /\ UNCHANGED adapterVars

\* The wait of Timeout seconds ran out on a task that is not over.
CollectTimeout ==
    /\ pc = "collect"
    /\ Pending(futures[idx])
    /\ now - waitStart >= Timeout
    /\ Iterate
    /\ timedOut' = timedOut \cup {futures[idx]}
    /\ waitStart' = now
    /\ UNCHANGED <<config, env, futures, task, taskVal, exceeded, now>>
    /\ UNCHANGED adapterVars

\* The end of the with block: ThreadPoolExecutor.__exit__ is shutdown(wait=True).
AllTasksOver == \A n \in Names : ~Pending(n)

Return ==
    /\ pc = "shutdown"
    /\ AllTasksOver
    /\ pc' = "returned"
    /\ UNCHANGED <<config, env, futures, task, taskVal, exceeded, results, timedOut,
                   idx, now, waitStart>>
    /\ UNCHANGED adapterVars

\* Time passes while the orchestrator is blocked: in a wait whose future is
\* not done and whose bound is not reached, or in the executor's shutdown.
Tick ==
    /\ now + Step <= MaxTime
    /\ \/ pc = "collect" /\ Pending(futures[idx]) /\ now - waitStart < Timeout
       \/ pc = "shutdown" /\ ~AllTasksOver
    /\ now' = now + Step
    /\ UNCHANGED <<config, env, pc, futures, task, taskVal, exceeded, results,
                   timedOut, idx, waitStart>>
    /\ UNCHANGED adapterVars

Next ==
    \/ Submit
    \/ \E n \in Names : TaskReturn(n)
    \/ \E n \in Names : TaskRaise(n)
    \/ CollectDone
    \/ CollectTimeout
    \/ Return
    \/ Tick

Spec == Init /\ [][Next]_vars

----------------------------------------------------------------------------
(* The adapter calls that are explored *)

Limits == 0..MaxLimit

Queries == {"BTC", "btc", "pepe"}

ProxyPools == { <<>>, <<"http://p1", "http://p2">> }

SubLists == { <<>>, <<"bitcoin">>, <<"bitcoin", "btc">> }

UserKeys == {None, "", "user-key"}

\* One exchange holding one direct answer, for the adapters that call
\* requests.get themselves.
Direct == {<<r>> : r \in Responses}

\* The first answers after which fetch_cryptopanic asks a second time.
Retried == {<<Http(429)>>, <<Http(500)>>}

AdapterCall(name, query, limit, api_key, subs, proxies, net) ==
    [name |-> name, query |-> query, limit |-> limit, api_key |-> api_key,
     subs |-> subs, proxies |-> proxies, net |-> net]

LoopCalls ==
    {AdapterCall("ct_nitter", "BTC", l, None, <<>>, p, net) :
        l \in Limits, p \in ProxyPools, net \in SeqsUpTo(LoopExchanges, MaxNet)}
    \cup
    {AdapterCall("reddit", "BTC", l, None, s, p, net) :
        l \in Limits, s \in SubLists, p \in ProxyPools, net \in SeqsUpTo(LoopExchanges, MaxNet)}

KeyedCalls ==
    {AdapterCall(n, "BTC", l, k, <<>>, <<>>, <<x>>) :
        n \in {"ct_rapidapi", "news"}, l \in Limits, k \in UserKeys, x \in Direct}

PlainCalls ==
    {AdapterCall(n, q, l, None, <<>>, <<>>, <<x>>) :
        n \in {"cryptocompare", "cmc"}, q \in Queries, l \in Limits, x \in Direct}
    \cup
    {AdapterCall("cryptopanic", q, l, None, <<>>, <<>>, <<x>>) :
        q \in Queries, l \in Limits, x \in Direct}
    \cup
    {AdapterCall("cryptopanic", q, l, None, <<>>, <<>>, <<x, y>>) :
        q \in Queries, l \in Limits, x \in Retried, y \in Direct}
    \cup
    {AdapterCall("trending", "", 0, None, <<>>, <<>>, <<x>>) : x \in Direct}

\* The secret store and the environment, for the key the adapter resolves.
AdapterEnvs ==
    {Environment(ok, sh, ev) :
        ok \in BOOLEAN, sh \in {Missing, "", "shared-key"}, ev \in {Missing, "", "env-key"}}

NoEnv == Environment(TRUE, Missing, Missing)

IdleConfig == Config({}, "Nitter (Free)", None, None)

InitAdapters ==
    /\ call \in LoopCalls \cup KeyedCalls \cup PlainCalls
    /\ env \in IF call.name \in {"ct_rapidapi", "news"} THEN AdapterEnvs ELSE {NoEnv}
    /\ ret = NoResult
    /\ netlog = <<>>
    /\ out = NoOut
    /\ bot = NoBot
    /\ pc = "call"
    /\ config = IdleConfig
    /\ futures = <<>>
    /\ task = [n \in Names |-> "none"]
    /\ taskVal = [n \in Names |-> NoneValue]
    /\ exceeded = [n \in Names |-> FALSE]
    /\ results = <<>>
    /\ timedOut = {}
    /\ idx = 1
    /\ now = 0
    /\ waitStart = 0

\* The adapter returns r: its requests are added to the log.
Returns(r) ==
    /\ ret' = r
    /\ netlog' = netlog \o r.log
    /\ pc' = "done"
    /\ UNCHANGED <<call, config, env, futures, task, taskVal, exceeded, results,
                   timedOut, idx, now, waitStart, out, bot>>

CallNitter ==
    /\ pc = "call" /\ call.name = "ct_nitter"
    /\ Returns(fetch_ct_nitter(call.query, call.limit, call.proxies, call.net))

CallRapidApi ==
    /\ pc = "call" /\ call.name = "ct_rapidapi"
    /\ Returns(fetch_ct_rapidapi(call.query, call.limit, call.api_key, env, call.net))

CallReddit ==
    /\ pc = "call" /\ call.name = "reddit"
    /\ Returns(fetch_reddit_json(call.subs, call.query, call.limit, call.proxies, call.net))

CallNews ==
    /\ pc = "call" /\ call.name = "news"
    /\ Returns(fetch_news(call.query, 7, call.limit, call.api_key, env, call.net))

CallCryptoPanic ==
    /\ pc = "call" /\ call.name = "cryptopanic"
    /\ Returns(fetch_cryptopanic(call.query, call.limit, call.net))

CallCryptoCompare ==
    /\ pc = "call" /\ call.name = "cryptocompare"
    /\ Returns(fetch_cryptocompare_news(call.query, call.limit, call.net))

CallCmc ==
    /\ pc = "call" /\ call.name = "cmc"
    /\ Returns(fetch_coinmarketcap_news(call.query, call.limit, call.net))

CallTrending ==
    /\ pc = "call" /\ call.name = "trending"
    /\ Returns(fetch_coingecko_trending(call.net))

NextAdapters ==
    \/ CallNitter
    \/ CallRapidApi
    \/ CallReddit
    \/ CallNews
    \/ CallCryptoPanic
    \/ CallCryptoCompare
    \/ CallCmc
    \/ CallTrending

SpecAdapters == InitAdapters /\ [][NextAdapters]_vars

----------------------------------------------------------------------------
(* The helper calls that are explored *)

\* random.sample(population, k): k pairwise distinct positions of the
\* population, in any order.
random_sample(population, k) ==
    {smp \in [1..k -> 1..Len(population)] :
        \A i, j \in 1..k : i # j => smp[i] # smp[j]}

\* What one attempt of safe_request can meet.
AttemptKinds == {Exc, Http(500), Page(<<EPos>>)}

SamplePools ==
    { <<>>, <<"http://p1", "http://p2">>,
      <<"http://p1", "http://p2", "http://p3", "http://p4">> }

HelperCall(name, key_name, user_key, x, proxies) ==
    [name |-> name, key_name |-> key_name, user_key |-> user_key, x |-> x,
     proxies |-> proxies]

HelperCalls ==
    {HelperCall("get_api_key", k, u, <<>>, <<>>) : k \in KeyNames, u \in UserKeys}
    \cup
    {HelperCall("safe_request", "", None, x, p) :
        x \in SeqsUpTo(AttemptKinds, 1 + ProxySample), p \in SamplePools}

\* The secret store and the environment may hold different things for the
\* two key names.
HelperEnvs ==
    AdapterEnvs
    \cup {[secretsOK |-> ok,
           secrets |-> ("RAPIDAPI_KEY" :> "shared-key") @@ ("NEWSAPI_KEY" :> Missing),
           environ |-> ("RAPIDAPI_KEY" :> Missing) @@ ("NEWSAPI_KEY" :> "env-key")] :
          ok \in BOOLEAN}

InitHelpers ==
    /\ call \in HelperCalls
    /\ env \in IF call.name = "get_api_key" THEN HelperEnvs ELSE {NoEnv}
    /\ pc = "call"
    /\ out = NoOut
    /\ bot = NoBot
    /\ ret = NoResult
    /\ netlog = <<>>
    /\ config = IdleConfig
    /\ futures = <<>>
    /\ task = [n \in Names |-> "none"]
    /\ taskVal = [n \in Names |-> NoneValue]
    /\ exceeded = [n \in Names |-> FALSE]
    /\ results = <<>>
    /\ timedOut = {}
    /\ idx = 1
    /\ now = 0
    /\ waitStart = 0

CallGetApiKey ==
    /\ pc = "call" /\ call.name = "get_api_key"
    /\ out' = [kind |-> "key", value |-> get_api_key(call.key_name, call.user_key, env)]
    /\ pc' = "done"
    /\ UNCHANGED <<call, config, env, futures, task, taskVal, exceeded, results,
                   timedOut, idx, now, waitStart, ret, netlog, bot>>

\* One call of safe_request: the sample is drawn when the proxies are tried;
\* tried lists the positions of the pool gone through, the log the requests.
CallSafeRequest ==
    /\ pc = "call" /\ call.name = "safe_request"
    /\ \E smp \in random_sample(call.proxies, Min(ProxySample, Len(call.proxies))) :
          LET sr == safe_request(call.x, call.proxies)
          IN /\ out' = [kind |-> "response", r |-> sr.r, tried |-> SubSeq(smp, 1, sr.n - 1)]
             /\ netlog' = <<Ev("GET", "direct")>>
                          \o [j \in 1..(sr.n - 1) |-> Ev("GET", call.proxies[smp[j]])]
    /\ pc' = "done"
    /\ UNCHANGED <<call, config, env, futures, task, taskVal, exceeded, results,
                   timedOut, idx, now, waitStart, ret, bot>>

NextHelpers ==
    \/ CallGetApiKey
    \/ CallSafeRequest

SpecHelpers == InitHelpers /\ [][NextHelpers]_vars

----------------------------------------------------------------------------
(* Sentiment grading and aggregation (src/app.py, src/typefully_bot.py) *)

\* A mean kept exact: the sum of the scores (hundredths) and their number.
Ratio(sum, n) == [sum |-> sum, n |-> n]

\* get_sentiment_grade on a mean. On the mean of nothing (NaN) every
\* comparison is false and the last branch is taken.
get_sentiment_grade(score) ==
    IF score.n = 0 THEN "F"
    ELSE IF score.sum >= 50 * score.n THEN "A+"
    ELSE IF score.sum >= 30 * score.n THEN "A"
    ELSE IF score.sum >= 10 * score.n THEN "B"
    ELSE IF score.sum >= -10 * score.n THEN "C"
    ELSE IF score.sum >= -30 * score.n THEN "D"
    ELSE "F"

\* Mutant: another order of the sources.
sentiment_sources_reddit_first ==
    << "reddit", "ct_nitter", "ct_rapidapi", "news", "cryptopanic",
       "cryptocompare", "cmc", "trending" >>

sentiment_sources ==
    << "ct_nitter", "ct_rapidapi", "reddit", "news", "cryptopanic",
       "cryptocompare", "cmc", "trending" >>

\* `data, _ = results[name] if isinstance(results[name], tuple) else
\* (results[name], "")`, then what all_data.extend(data) adds when data is
\* truthy: the items of a tuple, the keys of a dict, nothing for None or an
\* empty list. listOnly is the posting job's extra isinstance(data, list).
Extension(entry, listOnly) ==
    IF entry.shape = "tuple" THEN entry.items
    ELSE IF entry.shape = "dict" /\ ~listOnly THEN <<"value", "classification", "timestamp">>
    ELSE <<>>

RECURSIVE Concat(_, _, _, _)
\* The loop over the source names from position i on.
Concat(order, i, res, listOnly) ==
    IF i > Len(order) THEN <<>>
    ELSE (IF order[i] \in DOMAIN res THEN Extension(res[order[i]], listOnly) ELSE <<>>)
         \o Concat(order, i + 1, res, listOnly)

\* all_data as the dashboard builds it, and as the posting job builds it.
all_data(res) == Concat(sentiment_sources, 1, res, FALSE)

\* Mutant: the posting job leaves out the last source.
bot_all_data_short(res) ==
    Concat(SubSeq(sentiment_sources, 1, Len(sentiment_sources) - 1), 1, res, TRUE)

bot_all_data(res) == Concat(sentiment_sources, 1, res, TRUE)

RECURSIVE SumCompound(_, _)
SumCompound(items, i) ==
    IF i > Len(items) THEN 0 ELSE items[i].compound + SumCompound(items, i + 1)

\* Mutant: an incremental average, halving at each item.
RunningMean(items) ==
    LET RECURSIVE Run(_, _)
        Run(i, m) == IF i > Len(items) THEN m ELSE Run(i + 1, (m + items[i].compound) \div 2)
    IN Ratio(Run(1, 0) * Len(items), Len(items))

\* df["compound"].mean()
Mean(items) == Ratio(SumCompound(items, 1), Len(items))

Labels == {"positive", "negative", "neutral"}

\* df["label"].value_counts(), read with .get(label, 0)
label_counts(items) ==
    [l \in Labels |-> Cardinality({i \in 1..Len(items) : items[i].label = l})]

\* a / n rounded to the nearest integer, ties to the even one.
RoundDiv(a, n) ==
    LET lo == a \div n
        rem == a - lo * n
    IN IF 2 * rem < n THEN lo
       ELSE IF 2 * rem > n THEN lo + 1
       ELSE IF lo % 2 = 0 THEN lo ELSE lo + 1

\* df.groupby("source").agg(mean, count): per source the mean rounded to four
\* decimals (in units of 0.0001) and the number of items.
agg(items) ==
    LET sources == {items[i].source : i \in 1..Len(items)}
        Of(src) == SelectSeq(items, LAMBDA it : it.source = src)
    IN [src \in sources |->
          [mean_compound |-> RoundDiv(100 * SumCompound(Of(src), 1), Len(Of(src))),
           items |-> Len(Of(src))]]

\* What a run of the aggregation leaves: kind is "failure" (nothing to
\* aggregate) or "report"; price: the price data is used; fear_greed: what
\* the market section does with the fear/greed entry.
Report(by, kind, items, mean, grade, counts, bySource, price, fg) ==
    [by |-> by, kind |-> kind, items |-> items, mean |-> mean, grade |-> grade,
     label_counts |-> counts, agg |-> bySource, price |-> price, fear_greed |-> fg]

NoCounts == [l \in Labels |-> 0]

Failure(by) == Report(by, "failure", <<>>, Ratio(0, 0), "", NoCounts, <<>>, FALSE, "unused")

\* Mutant: the emptiness test left out.
df_never_empty(data) == FALSE

\* df.empty
df_empty(data) == Len(data) = 0

\* The market section of the dashboard: results.get('fear_greed') is
\* subscripted with 'value' whenever it is truthy.
FearGreedShown(res) ==
    IF "fear_greed" \notin DOMAIN res THEN "absent"
    ELSE IF res["fear_greed"].shape = "None" THEN "absent"
    ELSE IF res["fear_greed"].shape = "dict" THEN "shown"
    ELSE "TypeError"

PriceShown(res) == "coingecko" \in DOMAIN res /\ res["coingecko"].data # None

\* The dashboard from the aggregation on: st.error and st.stop() on an empty
\* frame, otherwise the grade card, the breakdown and the market section.
Dashboard(res) ==
    LET data == all_data(res)
    IN IF df_empty(data) THEN Failure("dashboard")
       ELSE Report("dashboard", "report", data, Mean(data),
                   get_sentiment_grade(Mean(data)), label_counts(data), agg(data),
                   PriceShown(res), FearGreedShown(res))

\* analyze_coin_with_cryptovibes after fetch_all_parallel returned res: the
\* error dict when nothing was collected, otherwise sentiment, grade, the
\* number of items and the price data. It computes no breakdown.
analyze_coin_with_cryptovibes(res) ==
    LET data == bot_all_data(res)
    IN IF Len(data) = 0 THEN Failure("bot")
       ELSE Report("bot", "report", data, Mean(data),
                   get_sentiment_grade(Mean(data)), NoCounts, <<>>,
                   PriceShown(res), "unused")

----------------------------------------------------------------------------
(* The result maps that are aggregated *)

AggConfig == Config(Gates, "All", "user-key", "user-key")

AggPool == {EPos, EOff, EEdge}

\* A source that answered with up to MaxEntries entries, and one that
\* answered with at most one.
LongNets == {<<>>} \cup { << <<Page(b)>> >> : b \in SeqsUpTo(AggPool, MaxEntries) }

ShortNets == {<<>>} \cup { << <<Page(<<e>>)>> >> : e \in AggPool }

\* The entries fetch_all_parallel can hold for a sentiment source.
SentimentEntries(name, nets) ==
    {RunTask(name, AggConfig, NoEnv, net) : net \in nets} \cup {TimeoutEntry}

\* The price and fear/greed entries: both tasks are always submitted.
MarketEntries ==
    { ("coingecko" :> get_coingecko("BTC", << <<Page(<<EPos>>)>> >>))
        @@ ("fear_greed" :> fetch_fear_greed(<< <<Page(<<EPos>>)>> >>)),
      ("coingecko" :> get_coingecko("BTC", <<>>)) @@ ("fear_greed" :> fetch_fear_greed(<<>>)),
      ("coingecko" :> TimeoutEntry) @@ ("fear_greed" :> TimeoutEntry) }

SourcePairs ==
    { <<"ct_nitter", "reddit">>, <<"reddit", "news">>, <<"news", "cmc">>,
      <<"cryptopanic", "trending">>, <<"ct_rapidapi", "cryptocompare">> }

ResultMaps ==
    MarketEntries
    \cup UNION {{(p[1] :> a) @@ m :
                    a \in SentimentEntries(p[1], LongNets), m \in MarketEntries} :
                 p \in SourcePairs}
    \cup UNION {{(p[1] :> a) @@ (p[2] :> b) @@ m :
                    a \in SentimentEntries(p[1], LongNets),
                    b \in SentimentEntries(p[2], ShortNets),
                    m \in MarketEntries} : p \in SourcePairs}

InitAggregate ==
    /\ results \in ResultMaps
    /\ pc = "aggregate"
    /\ out = NoOut
    /\ bot = NoBot
    /\ call = NoCall
    /\ ret = NoResult
    /\ netlog = <<>>
    /\ config = AggConfig
    /\ env = NoEnv
    /\ futures = <<>>
    /\ task = [n \in Names |-> "none"]
    /\ taskVal = [n \in Names |-> NoneValue]
    /\ exceeded = [n \in Names |-> FALSE]
    /\ timedOut = {}
    /\ idx = 1
    /\ now = 0
    /\ waitStart = 0

Aggregated(report) ==
    /\ out' = report
    /\ pc' = "aggregated"
    /\ UNCHANGED <<config, env, futures, task, taskVal, exceeded, results, timedOut,
                   idx, now, waitStart, call, ret, netlog, bot>>

AggregateDashboard ==
    /\ pc = "aggregate"
    /\ Aggregated(Dashboard(results))

AggregateBot ==
    /\ pc = "aggregate"
    /\ Aggregated(analyze_coin_with_cryptovibes(results))

NextAggregate ==
    \/ AggregateDashboard
    \/ AggregateBot

SpecAggregate == InitAggregate /\ [][NextAggregate]_vars

----------------------------------------------------------------------------
(* The posting job: run_daily_analysis (src/typefully_bot.py) *)

TOP_5_COINS == <<"BTC", "ETH", "SOL", "ADA", "XRP">>

SPECIAL_COIN == "AVAX"

\* get_social_set_id with the key the module read at import and the answer r
\* of the social-sets endpoint: the id of the first social set, or ValueError
\* (no key, a transport error, a status other than 200, a body that does not
\* parse, no social set, a first social set without an id).
get_social_set_id(key, r) ==
    IF key = "" THEN [raised |-> TRUE, id |-> None]
    ELSE IF r.kind = "exc" \/ r.code # 200 \/ ~r.json THEN [raised |-> TRUE, id |-> None]
    ELSE IF Len(r.entries) = 0 THEN [raised |-> TRUE, id |-> None]
    ELSE IF ~r.entries[1].ok THEN [raised |-> TRUE, id |-> None]
    ELSE [raised |-> FALSE, id |-> "social-set"]

\* What market_data.price_change_percentage_24h of CoinGecko's answer holds,
\* which get_coingecko copies as it is: a number other than 0, the number 0,
\* or null.
PriceChanges == {"number", "zero", "None"}

\* The dict analyze_coin_with_cryptovibes(coin) returns when
\* fetch_all_parallel gave res: the error dict when nothing was collected,
\* otherwise coin, sentiment, grade, the number of items, and the key
\* price_change_24h only when the coingecko entry holds data ("absent"
\* stands for the key not being there).
AnalysisDict(coin, res, change) ==
    LET rep == analyze_coin_with_cryptovibes(res)
    IN IF rep.kind = "failure"
       THEN [error |-> TRUE, coin |-> coin, sentiment |-> Ratio(0, 0), grade |-> "",
             items_analyzed |-> 0, price_change_24h |-> "absent"]
       ELSE [error |-> FALSE, coin |-> coin, sentiment |-> rep.mean, grade |-> rep.grade,
             items_analyzed |-> Len(rep.items),
             price_change_24h |-> IF rep.price THEN change ELSE "absent"]

RECURSIVE TotalAnalyzed(_, _)
TotalAnalyzed(rs, i) ==
    IF i > Len(rs) THEN 0
    ELSE (IF rs[i].error THEN 0 ELSE rs[i].items_analyzed) + TotalAnalyzed(rs, i + 1)

\* format_top5_tweet: one line per result that is not an error, with the
\* price change when the key is there and its value differs from 0. The
\* value is formatted with :+.1f, which raises TypeError on None.
format_top5_tweet(rs) ==
    LET shown == SelectSeq(rs, LAMBDA r : ~r.error)
    IN IF \E i \in 1..Len(shown) : shown[i].price_change_24h = "None"
       THEN [raised |-> TRUE, lines |-> <<>>, total |-> 0]
       ELSE [raised |-> FALSE,
             lines |-> [i \in 1..Len(shown) |->
                          [coin |-> shown[i].coin, grade |-> shown[i].grade,
                           price_str |-> shown[i].price_change_24h = "number"]],
             total |-> TotalAnalyzed(rs, 1)]

\* format_avax_tweet: None (none) for an error result; otherwise the report, with
\* the 24h line whenever the key is there (formatted with :+.1f) and the
\* context line chosen by the sentiment.
format_avax_tweet(r) ==
    IF r.error THEN [raised |-> FALSE, none |-> TRUE]
    ELSE IF r.price_change_24h = "None" THEN [raised |-> TRUE, none |-> TRUE]
    ELSE [raised |-> FALSE, none |-> FALSE,
          tweet |-> [grade |-> r.grade,
                     price_line |-> r.price_change_24h # "absent",
                     context |-> IF r.sentiment.sum > 30 * r.sentiment.n THEN "strong"
                                 ELSE IF r.sentiment.sum > 10 * r.sentiment.n THEN "positive"
                                 ELSE IF r.sentiment.sum > -10 * r.sentiment.n THEN "mixed"
                                 ELSE "bearish",
                     items |-> r.items_analyzed]]

\* post_to_typefully_v2: False without a key, True on 200 or 201, False on
\* any other status and on any exception.
post_to_typefully_v2(key, r) ==
    IF key = "" THEN FALSE
    ELSE IF r.kind = "exc" THEN FALSE
    ELSE r.code \in {200, 201}

\* The keys the module can have read, the answers of the social-sets and of
\* the drafts endpoint, and the result maps of the analyses.
ApiKeys == {"", "typefully-key"}

SocialSetAnswers == {Exc, Http(500), BadPage, Page(<<>>), Page(<<EBad>>), Page(<<EPos>>)}

PostAnswers == {Exc, Http(500), Http(201), BadPage}

BotMaps ==
    UNION {{m, ("reddit" :> RunTask("reddit", AggConfig, NoEnv, << <<Page(<<EPos>>)>> >>)) @@ m} :
             m \in MarketEntries}

Did(op, arg, ok) == [op |-> op, arg |-> arg, ok |-> ok]

InitBot ==
    /\ pc = "daily_start"
    /\ bot \in {[NoBot EXCEPT !.api_key = k] : k \in ApiKeys}
    /\ out = NoOut
    /\ call = NoCall
    /\ ret = NoResult
    /\ netlog = <<>>
    /\ config = AggConfig
    /\ env = NoEnv
    /\ futures = <<>>
    /\ task = [n \in Names |-> "none"]
    /\ taskVal = [n \in Names |-> NoneValue]
    /\ exceeded = [n \in Names |-> FALSE]
    /\ results = <<>>
    /\ timedOut = {}
    /\ idx = 1
    /\ now = 0
    /\ waitStart = 0

BotStep(position, b) ==
    /\ pc' = position
    /\ bot' = b
    /\ UNCHANGED <<config, env, futures, task, taskVal, exceeded, results, timedOut,
                   idx, now, waitStart, call, ret, netlog, out>>

\* try: social_set_id = get_social_set_id(); except Exception: return
GetSocialSetId ==
    /\ pc = "daily_start"
    /\ \E r \in SocialSetAnswers :
          LET got == get_social_set_id(bot.api_key, r)
          IN IF got.raised THEN BotStep("daily_done", bot)
             ELSE BotStep("analyze_top5",
                          [bot EXCEPT !.social_set_id = got.id,
                                      !.events = Append(@, Did("social_set_id", got.id, TRUE))])

\* One iteration of the loop over TOP_5_COINS.
AnalyzeTop5Coin ==
    /\ pc = "analyze_top5"
    /\ \E res \in BotMaps, change \in PriceChanges :
          LET coin == TOP_5_COINS[Len(bot.top5_results) + 1]
              result == AnalysisDict(coin, res, change)
          IN BotStep(IF Len(bot.top5_results) + 1 = Len(TOP_5_COINS)
                     THEN "post_top5" ELSE "analyze_top5",
                     [bot EXCEPT !.top5_results = Append(@, result),
                                 !.events = Append(@, Did("analyze", coin, ~result.error))])

\* The Top-5 tweet is formatted and posted; the run returns when the post
\* failed.
PostTop5 ==
    /\ pc = "post_top5"
    /\ IF format_top5_tweet(bot.top5_results).raised THEN BotStep("daily_raised", bot)
       ELSE \E r \in PostAnswers :
               LET success1 == post_to_typefully_v2(bot.api_key, r)
               IN BotStep(IF success1 THEN "analyze_avax" ELSE "daily_done",
                          [bot EXCEPT !.events = Append(@, Did("post", "top5", success1))])

\* After the pause: avax_result = analyze_coin_with_cryptovibes(SPECIAL_COIN)
AnalyzeAvax ==
    /\ pc = "analyze_avax"
    /\ \E res \in BotMaps, change \in PriceChanges :
          LET result == AnalysisDict(SPECIAL_COIN, res, change)
          IN BotStep("post_avax",
                     [bot EXCEPT !.avax_result = result,
                                 !.events = Append(@, Did("analyze", SPECIAL_COIN, ~result.error))])

\* The AVAX tweet is formatted, and posted when there is one.
PostAvax ==
    /\ pc = "post_avax"
    /\ LET avax_tweet == format_avax_tweet(bot.avax_result)
       IN IF avax_tweet.raised THEN BotStep("daily_raised", bot)
          ELSE IF avax_tweet.none THEN BotStep("daily_done", bot)
          ELSE \E r \in PostAnswers :
                  LET success2 == post_to_typefully_v2(bot.api_key, r)
                  IN BotStep("daily_done",
                             [bot EXCEPT !.events = Append(@, Did("post", "avax", success2))])

NextBot ==
    \/ GetSocialSetId
    \/ AnalyzeTop5Coin
    \/ PostTop5
    \/ AnalyzeAvax
    \/ PostAvax

SpecBot == InitBot /\ [][NextBot]_vars

----------------------------------------------------------------------------
(* Properties of fetch_all_parallel, under Spec *)

Submitted == {futures[i] : i \in 1..Len(futures)}

\* C1: whatever the configuration (credentials None or given, no proxy pool)
\* and whatever the tasks do, raising included, no exception leaves
\* fetch_all_parallel.
C1_NoExceptionPropagates == pc # "raised"

C1_Witness ==
    /\ pc = "returned"
    /\ config.rapidapi_key = None /\ config.newsapi_key = None
    /\ \E n \in Submitted : task[n] = "raised" /\ results[n] = TimeoutEntry
    /\ timedOut # {}

\* C2: when fetch_all_parallel returns, the keys of the mapping are exactly
\* the submitted tasks; a task whose wait ran out or that raised has the
\* timeout/error entry, every other task the value it returned.
C2_OneEntryPerTask ==
    pc = "returned" =>
        /\ DOMAIN results = Submitted
        /\ Len(futures) = Cardinality(Submitted)
        /\ \A n \in Submitted :
              results[n] = IF n \in timedOut \/ task[n] = "raised"
                           THEN TimeoutEntry
                           ELSE taskVal[n]

C2_Witness ==
    /\ pc = "returned"
    /\ timedOut # {}
    /\ \E n \in Submitted : n \notin timedOut /\ task[n] = "raised"
    /\ \E n \in Submitted : results[n] = taskVal[n] /\ Len(results[n].items) > 0

\* C3: once every wait is over and a slow task was recorded as timed out,
\* fetch_all_parallel can return without waiting for that task.
C3_ReturnsWithoutWaiting ==
    (pc = "shutdown" /\ timedOut # {}) => ENABLED Return

\* C4: a task that finished more than Timeout seconds after its submission
\* never has its real result in the mapping: its entry is the timeout/error one.
C4_LateResultDiscarded ==
    \A n \in DOMAIN results : exceeded[n] => results[n] = TimeoutEntry

\* C5 as stated: the submitted tasks are decided by the limits and the
\* trending flag alone, both Twitter tasks by ct_limit.
LimitTasks(cfg) ==
    {"coingecko", "fear_greed"}
    \cup (IF cfg.ct_limit > 0 THEN {"ct_nitter", "ct_rapidapi"} ELSE {})
    \cup (IF cfg.reddit_limit > 0 THEN {"reddit"} ELSE {})
    \cup (IF cfg.news_limit > 0 THEN {"news"} ELSE {})
    \cup (IF cfg.cryptopanic_limit > 0 THEN {"cryptopanic"} ELSE {})
    \cup (IF cfg.cryptocompare_limit > 0 THEN {"cryptocompare"} ELSE {})
    \cup (IF cfg.cmc_limit > 0 THEN {"cmc"} ELSE {})
    \cup (IF cfg.trending_enabled THEN {"trending"} ELSE {})

C5_SubmittedByLimitsAlone == pc # "start" => Submitted = LimitTasks(config)

\* C5 amended: as above, except that the two Twitter tasks also depend on the
\* method selector, and the RapidAPI task on a key being resolvable (the
\* user's key, the shared secret or the environment variable).
KeyResolvable(name, user_key, e) ==
    \/ Truthy(user_key)
    \/ e.secretsOK /\ Truthy(e.secrets[name])
    \/ ~(e.secretsOK /\ e.secrets[name] # Missing) /\ Truthy(e.environ[name])

GatedTasks(cfg, e) ==
    (LimitTasks(cfg) \ {"ct_nitter", "ct_rapidapi"})
    \cup (IF cfg.ct_limit > 0 /\ cfg.ct_method # "RapidAPI" THEN {"ct_nitter"} ELSE {})
    \cup (IF /\ cfg.ct_limit > 0
             /\ cfg.ct_method # "Nitter (Free)"
             /\ KeyResolvable("RAPIDAPI_KEY", cfg.rapidapi_key, e)
          THEN {"ct_rapidapi"} ELSE {})

C5_SubmittedSet ==
    pc # "start" =>
        /\ Submitted = GatedTasks(config, env)
        /\ Len(futures) = Cardinality(Submitted)

C5_Witness ==
    /\ pc = "collect"
    /\ config.ct_limit > 0 /\ config.ct_method = "RapidAPI"
    /\ "ct_rapidapi" \in Submitted /\ "ct_nitter" \notin Submitted

\* C6: a keyed source that is requested but has no resolvable key has an
\* entry in the returned mapping, with empty items and the missing-credential
\* status (or the timeout/error entry if its task was not collected in time).
Requested(name, cfg) ==
    CASE name = "ct_rapidapi" -> cfg.ct_limit > 0 /\ cfg.ct_method \in {"RapidAPI", "All"}
      [] OTHER -> cfg.news_limit > 0

UserKey(name, cfg) == IF name = "ct_rapidapi" THEN cfg.rapidapi_key ELSE cfg.newsapi_key

KeyName(name) == IF name = "ct_rapidapi" THEN "RAPIDAPI_KEY" ELSE "NEWSAPI_KEY"

C6_MissingCredentialEntry ==
    pc = "returned" =>
        \A name \in {"ct_rapidapi", "news"} :
            (Requested(name, config) /\ ~KeyResolvable(KeyName(name), UserKey(name, config), env))
            => /\ name \in DOMAIN results
               /\ results[name] \in {Tuple(<<>>, NoApiKey), TimeoutEntry}

----------------------------------------------------------------------------
(* Properties of the adapters, under SpecAdapters *)

LimitAdapters ==
    {"ct_nitter", "ct_rapidapi", "reddit", "news", "cryptopanic", "cryptocompare", "cmc"}

KeyedAdapters == {"ct_rapidapi", "news"}

\* C7: an adapter that takes a limit, called with limit = 0, issues no request
\* and returns (empty, "Disabled").
C7_DisabledNoRequest ==
    (pc = "done" /\ call.name \in LimitAdapters /\ call.limit = 0) =>
        /\ ret.items = <<>>
        /\ ret.status = Disabled
        /\ netlog = <<>>

C7_Witness ==
    /\ pc = "done" /\ call.limit = 0
    /\ call.name = "cryptocompare"
    /\ Len(call.net[1][1].entries) > 0
    /\ ret.status = Disabled

\* C8: a keyed adapter called with limit > 0 while no key is to be found (no
\* explicit value, no shared secret, no environment variable) issues no
\* request and returns empty items with the missing-credentials status.
NoKeyAnywhere(name, user_key, e) ==
    /\ ~Truthy(user_key)
    /\ ~e.secretsOK \/ ~Truthy(e.secrets[name])
    /\ ~Truthy(e.environ[name])

C8_NoKeyNoRequest ==
    (/\ pc = "done" /\ call.name \in KeyedAdapters /\ call.limit > 0
     /\ NoKeyAnywhere(KeyName(call.name), call.api_key, env)) =>
        /\ ret.items = <<>>
        /\ ret.status = NoApiKey
        /\ netlog = <<>>

C8_Witness ==
    /\ pc = "done" /\ call.name = "news" /\ call.limit > 0
    /\ NoKeyAnywhere("NEWSAPI_KEY", call.api_key, env)
    /\ Len(call.net[1][1].entries) > 0
    /\ ret.status = NoApiKey

\* C9: for a keyed adapter that made its request, a 429 response gives empty
\* items and the rate-limit status, and no other answer (another non-200
\* code, an exception, a 200) gives that status.
C9_RateLimitDistinct ==
    (pc = "done" /\ call.name \in KeyedAdapters /\ netlog # <<>>) =>
        LET r == call.net[1][1]
        IN IF r.kind = "http" /\ r.code = 429
           THEN ret.items = <<>> /\ ret.status = RateLimit
           ELSE ret.status # RateLimit

C9_Witness ==
    /\ pc = "done" /\ call.name = "ct_rapidapi" /\ netlog # <<>>
    /\ call.net[1][1] = Http(429)
    /\ ret.status = RateLimit

\* C10: an adapter that returns items returns them with a success status,
\* never with a failure, disabled, rate-limit or missing-credential one.
C10_ItemsImplySuccess ==
    (pc = "done" /\ Len(ret.items) > 0) =>
        /\ IsSuccess(ret.status)
        /\ ret.status \notin {Disabled, NoApiKey, RateLimit, ErrorExc}

C10_Witness ==
    /\ pc = "done" /\ call.name = "reddit"
    /\ Len(ret.items) > 0
    /\ ret.status.failed > 0

\* C11: every item an adapter returns, and every item of the dataset
\* aggregated from what it returned, has the label of its score: positive
\* iff the score is above 0.05, negative iff below -0.05, neutral otherwise
\* (0.05 and -0.05 are neutral).
LabelAgrees(it) ==
    /\ it.label = "positive" <=> it.compound > 5
    /\ it.label = "negative" <=> it.compound < -5
    /\ it.label = "neutral" <=> (it.compound >= -5 /\ it.compound <= 5)

C11_LabelMatchesScore ==
    pc = "done" =>
        LET data == all_data(call.name :> Tuple(ret.items, ret.status))
        IN /\ \A i \in 1..Len(ret.items) : LabelAgrees(ret.items[i])
           /\ \A i \in 1..Len(data) : LabelAgrees(data[i])

C11_Witness ==
    /\ pc = "done"
    /\ \E i, j \in 1..Len(ret.items) :
          /\ ret.items[i].compound = 5 /\ ret.items[i].label = "neutral"
          /\ ret.items[j].compound = -5 /\ ret.items[j].label = "neutral"
    /\ Len(all_data(call.name :> Tuple(ret.items, ret.status))) = Len(ret.items)

\* C12 as stated: every item an adapter returns has a title of at most 80
\* characters.
C12_TitleAtMost80 ==
    pc = "done" => \A i \in 1..Len(ret.items) : ret.items[i].titleLen <= TitleCut

\* C12 amended: the items of the two Twitter adapters have a title of at most
\* 80 characters, the first 80 of the text.
TwitterSources == {"ct_nitter", "ct_rapidapi"}

C12_TwitterTitleCut ==
    pc = "done" =>
        \A i \in 1..Len(ret.items) :
            ret.items[i].source \in TwitterSources =>
                /\ ret.items[i].titleLen <= TitleCut
                /\ ret.items[i].titleLen = Min(ret.items[i].textLen, TitleCut)

C12_Witness ==
    /\ pc = "done" /\ call.name = "ct_nitter"
    /\ \E i \in 1..Len(ret.items) :
          ret.items[i].textLen > TitleCut /\ ret.items[i].titleLen = TitleCut

----------------------------------------------------------------------------
(* Properties of the helpers, under SpecHelpers *)

\* C13: safe_request asks directly first; it goes through proxies only if the
\* direct attempt raised or was not 200 and a pool was given; it then tries at
\* most min(3, size of the pool) pairwise distinct entries of the pool, one
\* after another; no attempt follows the first 200 response, which is what it
\* returns; it returns None iff every attempt raised or was not 200.
C13_SafeRequestOrder ==
    (pc = "done" /\ call.name = "safe_request") =>
        LET n == Len(netlog)
            A(j) == AttemptAt(call.x, j)
        IN /\ out.kind = "response"
           /\ n >= 1 /\ netlog[1] = Ev("GET", "direct")
           /\ n > 1 => ~Is200(A(1)) /\ Len(call.proxies) > 0
           /\ n - 1 <= Min(3, Len(call.proxies))
           /\ Len(out.tried) = n - 1
           /\ \A j \in 1..(n - 1) :
                 /\ out.tried[j] \in 1..Len(call.proxies)
                 /\ netlog[j + 1] = Ev("GET", call.proxies[out.tried[j]])
           /\ \A i, j \in 1..(n - 1) : i # j => out.tried[i] # out.tried[j]
           /\ \A j \in 1..(n - 1) : ~Is200(A(j))
           /\ Is200(A(n)) => out.r = A(n)
           /\ out.r = NoResponse <=> \A j \in 1..n : ~Is200(A(j))

C13_Witness ==
    /\ pc = "done" /\ call.name = "safe_request"
    /\ Len(call.proxies) = 4
    /\ Len(netlog) = 4
    /\ Is200(out.r)
    /\ Len(call.x) = 4

\* C14: get_api_key returns the explicit value when it is non-empty; otherwise
\* the shared secret store's value for the name when the store can be read
\* and has the key; otherwise the environment variable when it is set and
\* non-empty; otherwise None. A missing key or an unreadable store falls
\* through to the environment variable.
C14_KeyPriority ==
    (pc = "done" /\ call.name = "get_api_key") =>
        LET k == call.key_name
            explicit == call.user_key \notin {None, ""}
            stored == env.secretsOK /\ env.secrets[k] # Missing
            inEnv == env.environ[k] \notin {Missing, ""}
        IN /\ out.kind = "key"
           /\ explicit => out.value = call.user_key
           /\ ~explicit /\ stored => out.value = env.secrets[k]
           /\ ~explicit /\ ~stored /\ inEnv => out.value = env.environ[k]
           /\ ~explicit /\ ~stored /\ ~inEnv => out.value = None

C14_Witness ==
    /\ pc = "done" /\ call.name = "get_api_key"
    /\ call.user_key = ""
    /\ ~env.secretsOK /\ env.secrets[call.key_name] = "shared-key"
    /\ out.value = "env-key"

----------------------------------------------------------------------------
(* Properties of the aggregation, under SpecAggregate *)

Permuted(items, p) == [i \in 1..Len(items) |-> items[p[i]]]

\* Some other orders in which the sources can be concatenated.
SourceOrders ==
    { [i \in 1..Len(sentiment_sources) |-> sentiment_sources[Len(sentiment_sources) + 1 - i]],
      [i \in 1..Len(sentiment_sources) |-> sentiment_sources[(i % Len(sentiment_sources)) + 1]],
      << "trending", "news", "cmc", "ct_nitter", "cryptocompare", "reddit",
         "cryptopanic", "ct_rapidapi" >> }

RECURSIVE SumOf(_, _)
SumOf(f, S) ==
    IF S = {} THEN 0
    ELSE LET x == CHOOSE y \in S : TRUE IN f[x] + SumOf(f, S \ {x})

\* The figures of a report agree with those computed from the items q.
SameFigures(q) ==
    /\ Mean(q) = out.mean
    /\ out.by = "dashboard" => label_counts(q) = out.label_counts /\ agg(q) = out.agg

\* C15: the mean, the per-label counts and the per-source (mean, count) pairs
\* of a report are those of every permutation of its items and of every
\* order of concatenating the sources; the per-label counts and the
\* per-source counts each add up to the number of items.
C15_OrderIndependent ==
    (pc = "aggregated" /\ out.kind = "report") =>
        /\ \A p \in Permutations(1..Len(out.items)) : SameFigures(Permuted(out.items, p))
        /\ \A order \in SourceOrders : SameFigures(Concat(order, 1, results, out.by = "bot"))
        /\ out.by = "dashboard" =>
              /\ SumOf(out.label_counts, Labels) = Len(out.items)
              /\ SumOf([src \in DOMAIN out.agg |-> out.agg[src].items], DOMAIN out.agg)
                 = Len(out.items)

C15_Witness ==
    /\ pc = "aggregated" /\ out.kind = "report" /\ out.by = "dashboard"
    /\ Len(out.items) >= 3
    /\ Cardinality(DOMAIN out.agg) = 2
    /\ out.label_counts["positive"] > 0 /\ out.label_counts["negative"] > 0
    /\ out.items[1].compound # out.items[Len(out.items)].compound

\* C16: when every sentiment source of the result map is missing or has no
\* item, the dashboard and the posting job both report a failure, without a
\* mean and without a grade, whatever the price and fear/greed entries hold.
NothingCollected(res) ==
    \A i \in 1..Len(sentiment_sources) :
        sentiment_sources[i] \in DOMAIN res => Len(res[sentiment_sources[i]].items) = 0

C16_EmptyRunIsFailure ==
    (pc = "aggregated" /\ NothingCollected(results)) =>
        /\ out.kind = "failure"
        /\ out.grade = ""
        /\ out.mean.n = 0
        /\ out.fear_greed # "TypeError"

C16_Witness ==
    /\ pc = "aggregated" /\ out.by = "dashboard" /\ out.kind = "failure"
    /\ \E i \in 1..Len(sentiment_sources) :
          /\ sentiment_sources[i] \in DOMAIN results
          /\ results[sentiment_sources[i]].status.mark = "WARN"
    /\ results["coingecko"].data # None
    /\ results["fear_greed"].shape = "dict"

----------------------------------------------------------------------------
(* Further properties of the adapters, under SpecAdapters *)

\* The hosts a log of requests went to, in order, each once.
RECURSIVE HostsQueried(_, _)
HostsQueried(log, i) ==
    IF i > Len(log) THEN <<>>
    ELSE IF i > 1 /\ log[i].target = log[i - 1].target THEN HostsQueried(log, i + 1)
    ELSE <<log[i].target>> \o HostsQueried(log, i + 1)

\* What safe_request gets from the i-th mirror host, and the items that
\* response yields.
HostResponse(i) == safe_request(NetAt(call.net, i), call.proxies).r

HostItems(i) ==
    IF Is200(HostResponse(i))
    THEN TweetLoop(Take(HostResponse(i).entries, call.limit), 1, <<>>, call.limit).items
    ELSE <<>>

\* C17: fetch_ct_nitter queries the mirror hosts in the order of the list;
\* it stops at the first host whose response yields an item and returns that
\* host's items with a success status; it queries every host and returns
\* (empty, all instances down) iff no host yielded an item.
C17_FirstYieldingHost ==
    (pc = "done" /\ call.name = "ct_nitter" /\ call.limit > 0) =>
        LET yielding == {i \in 1..Len(nitter_instances) : Len(HostItems(i)) > 0}
            first == CHOOSE i \in yielding : \A j \in yielding : i <= j
        IN IF yielding = {}
           THEN /\ HostsQueried(netlog, 1) = nitter_instances
                /\ ret.items = <<>>
                /\ ret.status = St("FAIL", "All instances down", 0, 0)
           ELSE /\ HostsQueried(netlog, 1) = SubSeq(nitter_instances, 1, first)
                /\ ret.items = HostItems(first)
                /\ IsSuccess(ret.status)

\* C18: fetch_reddit_json reports the number of failed subs in its status
\* whenever at least one sub failed, also when no item was collected.
FailedSubs == Len(SelectSeq(netlog, LAMBDA ev : ev.op = "error"))

C18_FailedCountReported ==
    (pc = "done" /\ call.name = "reddit" /\ call.limit > 0 /\ FailedSubs > 0) =>
        ret.status.failed = FailedSubs

\* C19: in fetch_reddit_json no request for a sub follows a request for the
\* sub before it without a pause in between.
C19_PauseBetweenSubs ==
    (pc = "done" /\ call.name = "reddit") =>
        \A i, j \in 1..Len(netlog) :
            (/\ i < j
             /\ netlog[i].op = "GET" /\ netlog[j].op = "GET"
             /\ netlog[i].target # netlog[j].target)
            => \E k \in (i + 1)..(j - 1) : netlog[k].op = "sleep"

\* C20: every item of a scraper-based adapter (Twitter mirror, Reddit JSON,
\* headline scraping) has a text without markup tags, of the minimum length
\* at least.
ScraperAdapters == {"ct_nitter", "reddit", "cmc"}

C20_ScrapedTextClean ==
    (pc = "done" /\ call.name \in ScraperAdapters) =>
        \A i \in 1..Len(ret.items) :
            /\ ~ret.items[i].tags
            /\ ret.items[i].textLen >= MinHeadline

\* ---------------------------------------------------------------------------
\* C21. Every item fetch_cryptopanic returns was filtered for the query: it
\* came from the answer to the first request and that request carried the
\* query as the currencies parameter (the query, upper-cased, is a known
\* ticker), or its title holds the query. An answer to the retry, which
\* carries no currencies parameter, gives only items whose title holds the
\* query.
FirstAnswered == Is200(AttemptAt(NetAt(call.net, 1), 1))

C21_EveryItemFiltered ==
    (pc = "done" /\ call.name = "cryptopanic") =>
        \A i \in 1..Len(ret.items) :
            \/ ret.items[i].match
            \/ FirstAnswered /\ Upper(call.query) \in known_currencies

\* The first request for a known ticker is refused, the retry is answered
\* with an entry about the query and one about something else, and only the
\* first of them is returned.
C21_Witness ==
    /\ pc = "done" /\ call.name = "cryptopanic"
    /\ Upper(call.query) \in known_currencies
    /\ ~FirstAnswered
    /\ AttemptAt(NetAt(call.net, 2), 1) = Page(<<EPos, EOff>>)
    /\ Len(ret.items) = 1
    /\ ret.items[1].match

\* ---------------------------------------------------------------------------
\* C22. The aggregated list is the concatenation, in the order ct_nitter,
\* ct_rapidapi, reddit, news, cryptopanic, cryptocompare, cmc, trending, of
\* the item lists of those of these names that the result map holds; the
\* coingecko and fear_greed entries add nothing, a source recorded as timed
\* out or failed adds nothing, and the mean is that of the items so listed.
Listed(name) == IF name \in DOMAIN results THEN results[name].items ELSE <<>>

Concatenated ==
    Listed("ct_nitter") \o Listed("ct_rapidapi") \o Listed("reddit") \o Listed("news")
    \o Listed("cryptopanic") \o Listed("cryptocompare") \o Listed("cmc")
    \o Listed("trending")

C22_FixedOrderConcatenation ==
    pc = "aggregated" =>
        /\ out.items = Concatenated
        /\ out.kind = "report" =>
              /\ out.mean.n = Len(Concatenated)
              /\ out.mean.sum = SumOf([i \in 1..Len(Concatenated) |-> Concatenated[i].compound],
                                      1..Len(Concatenated))

\* Crypto Twitter timed out, Reddit gave one item, the price and the
\* fear/greed index are there: the report is on Reddit's item alone.
C22_Witness ==
    /\ pc = "aggregated" /\ out.kind = "report"
    /\ "ct_nitter" \in DOMAIN results /\ results["ct_nitter"] = TimeoutEntry
    /\ "reddit" \in DOMAIN results /\ Len(results["reddit"].items) = 1
    /\ results["coingecko"].data # None
    /\ results["fear_greed"] = FearGreedDict
    /\ Len(out.items) = 1

\* ---------------------------------------------------------------------------
\* C23. On one result map the posting job and the dashboard aggregate alike:
\* the same items in the same order, the same verdict on whether anything
\* was collected, the same mean and the same letter grade.
OtherAggregation ==
    IF out.by = "dashboard" THEN analyze_coin_with_cryptovibes(results)
    ELSE Dashboard(results)

C23_JobMatchesDashboard ==
    pc = "aggregated" =>
        /\ out.by # OtherAggregation.by
        /\ out.items = OtherAggregation.items
        /\ out.kind = OtherAggregation.kind
        /\ out.mean = OtherAggregation.mean
        /\ out.grade = OtherAggregation.grade

\* The posting job reports on a map with items of CryptoPanic and of the
\* trending list and with a timed-out fear/greed entry.
C23_Witness ==
    /\ pc = "aggregated" /\ out.by = "bot" /\ out.kind = "report"
    /\ "trending" \in DOMAIN results /\ Len(results["trending"].items) > 0
    /\ "cryptopanic" \in DOMAIN results /\ Len(results["cryptopanic"].items) > 0
    /\ results["fear_greed"] = TimeoutEntry
    /\ out.grade \in {"A+", "A", "B", "C", "D", "F"}

\* ---------------------------------------------------------------------------
\* C24. Whatever the order in which the tasks run and end, the mapping is
\* written by the collection loop alone, one key per future in the order of
\* submission; when no wait ran out, the returned mapping holds for each
\* submitted task what that task itself ended with (its value, or the
\* timeout/error entry when it raised) and nothing else; and never more than
\* MaxWorkers tasks are running.
Running == {n \in Names : task[n] = "running"}

OwnOutcome(n) == IF task[n] = "raised" THEN TimeoutEntry ELSE taskVal[n]

C24_OrderIndependentMapping ==
    /\ Cardinality(Running) <= MaxWorkers
    /\ DOMAIN results = {futures[i] : i \in 1..(idx - 1)}
    /\ (pc = "returned" /\ timedOut = {}) =>
           results = [n \in Submitted |-> OwnOutcome(n)]

\* A returned run of three tasks, none timed out: the first gave items, the
\* second the price data, the third raised.
C24_Witness ==
    /\ pc = "returned" /\ timedOut = {}
    /\ Len(futures) = 3
    /\ task[futures[3]] = "raised"
    /\ Len(results[futures[1]].items) > 0
    /\ results[futures[2]].data # None

\* ---------------------------------------------------------------------------
\* C25. An adapter that takes a limit and is called with a positive one
\* returns at most that many items, however many sources it walks and
\* however many entries the answers hold.
C25_AtMostLimitItems ==
    (pc = "done" /\ call.name \in LimitAdapters /\ call.limit > 0) =>
        Len(ret.items) <= call.limit

\* ---------------------------------------------------------------------------
\* C26. In every mapping fetch_all_parallel returns, the fear_greed entry is
\* None or the record of value, classification and timestamp, never an
\* (items, status) pair, also when the fear/greed task timed out; so the
\* market section, which subscripts the entry whenever it is truthy, does
\* not fail on it. fetch_fear_greed catches whatever is raised in it, so the
\* runs looked at are those in which its task ended by returning, in time
\* or not.
C26_FearGreedNoneOrRecord ==
    (pc = "returned" /\ task["fear_greed"] = "returned") =>
        /\ results["fear_greed"] \in {NoneValue, FearGreedDict}
        /\ FearGreedShown(results) # "TypeError"

\* ---------------------------------------------------------------------------
\* C27. In a run of run_daily_analysis: nothing is analysed or posted before
\* the social-set id was obtained; the Top-5 post comes after the analyses
\* of all five coins; the AVAX analysis and the AVAX post come after a
\* Top-5 post that succeeded; at most two posts are sent; and the run never
\* ends by raising, whatever the analyses and the posts give.
Before(i, op, arg) ==
    \E j \in 1..(i - 1) : bot.events[j].op = op /\ bot.events[j].arg = arg

DailyOrder ==
    LET ev == bot.events
    IN /\ \A i \in 1..Len(ev) :
             ev[i].op \in {"analyze", "post"} => \E j \in 1..(i - 1) : ev[j].op = "social_set_id"
       /\ \A i \in 1..Len(ev) :
             (ev[i].op = "post" /\ ev[i].arg = "top5") =>
                 \A k \in 1..Len(TOP_5_COINS) : Before(i, "analyze", TOP_5_COINS[k])
       /\ \A i \in 1..Len(ev) :
             (ev[i].arg \in {SPECIAL_COIN, "avax"}) =>
                 \E j \in 1..(i - 1) :
                     ev[j].op = "post" /\ ev[j].arg = "top5" /\ ev[j].ok
       /\ Len(SelectSeq(ev, LAMBDA e : e.op = "post")) <= 2

C27_DailyRunOrderedAndQuiet ==
    /\ DailyOrder
    /\ pc # "daily_raised"

====
